---- MODULE Spec2Model ----
(***************************************************************************)
(* Model of the PostgreSQL -> OceanBase migration tool.                    *)
(*                                                                         *)
(* Data pipeline: DataMigrator.migrate_all_data / migrate_table_data       *)
(* (src/src/migration/data.py) together with the two collaborators it      *)
(* drives, PostgreSQLClient.get_table_count / get_table_data               *)
(* (src/src/database/postgres.py) and OceanBaseClient.insert_batch         *)
(* (src/src/database/oceanbase.py).                                        *)
(***************************************************************************)
EXTENDS Integers, Sequences, FiniteSets, TLC

\* ---------------------------------------------------------------- bounds
MaxRows == 2        \* largest source row count of a table
MaxChunk == 2       \* largest configured chunk_size
MaxBatch == 2       \* largest configured batch_size
MaxRetries == 1     \* largest configured max_retries
MaxReads == 3       \* cap on the get_table_data calls issued for one table
MaxFailed == 4      \* value from which on the failed counter is no longer told apart

\* the table list given to migrate_all_data
Tables == <<"t1", "t2">>
NumTables == Len(Tables)

Min(a, b) == IF a < b THEN a ELSE b
Max(a, b) == IF a > b THEN a ELSE b

VARIABLES
    chunk_size,         \* data_config['chunk_size']
    batch_size,         \* data_config['batch_size']
    max_retries,        \* error_config['max_retries']
    continue_on_error,  \* error_config['continue_on_error']
    pc,                 \* position of the control flow
    tbl,                \* index of the table migrate_all_data is handling
    total_count,        \* migrate_table_data local
    migrated,           \* migrate_table_data local
    failed,             \* migrate_table_data local
    retry_count,        \* migrate_table_data local
    data_len,           \* len(data) of the chunk read last
    result,             \* dict returned by migrate_table_data
    results,            \* the four buckets of migrate_all_data
    source_rows,        \* rows the source table holds now
    target,             \* per source position: times committed to the target
    reads,              \* get_table_data calls issued for the current table
    writes,             \* insert_batch calls issued for the current table
    read_offset,        \* offset of the latest get_table_data call, -1 if none
    exc_offset,         \* offset of the chunk that raised last, -1 once read again
    exceptions,         \* exceptions caught by the chunk loop for this table
    source_changed      \* the source table changed since it was counted

\* TypeConverter (src/src/migration/converter.py)
VARIABLES
    column_info,        \* the column descriptor given to the converter
    type_mapping,       \* self.mapping['postgres_to_mysql']
    ignore_types,       \* the rule list of the latest should_ignore_column call
    conv_op,            \* the converter method called last, "" if none
    ignore_ret,         \* what should_ignore_column returned
    type_ret            \* what convert_column_type returned

\* main (src/src/main.py): the phases of a run, for one table
VARIABLES
    mn_pc, mn_schema, mn_ignore_types, ignored_columns_map, mn_target_columns,
    mn_left_out

mainVars == <<mn_pc, mn_schema, mn_ignore_types, ignored_columns_map,
              mn_target_columns, mn_left_out>>

\* SchemaMigrator.migrate_schema (src/src/migration/schema.py)
VARIABLES
    ms_source, ms_pc, ms_tbl, ms_i, ms_results, ms_issued, ms_log

msVars == <<ms_source, ms_pc, ms_tbl, ms_i, ms_results, ms_issued, ms_log>>

\* SchemaMigrator DDL generation (src/src/migration/schema.py)
VARIABLES
    schema, ddl_ignore_types, ddl, nd_base_type, column_default,
    normalized_default, ddl_op

ddlVars == <<schema, ddl_ignore_types, ddl, nd_base_type, column_default,
             normalized_default, ddl_op>>
convVars == <<column_info, type_mapping, ignore_types, conv_op, ignore_ret,
              type_ret>>

\* retry / RetryManager.execute (src/src/utils/retry.py)
VARIABLES
    rt_via,             \* "decorator" or "execute": the entry point in use
    rt_max_retries,     \* max_retries
    rt_delay,           \* delay
    rt_backoff,         \* backoff
    rt_pc,              \* "idle", "loop", "returned" or "raised"
    rt_retries,         \* the local retries
    rt_current_delay,   \* the local current_delay
    rt_last_exception,  \* the local last_exception: the call that raised it
    rt_history,         \* per call of func so far: "ok" or "error"
    rt_slept,           \* the arguments of the time.sleep calls so far
    rt_result           \* what the wrapper returned or raised

\* DataValidator.validate_checksum (src/src/migration/validator.py)
VARIABLES
    vl_pc,              \* "idle", "sampled" or "done"
    vl_pg_data,         \* the sample get_table_data returned for the source
    vl_ob_data,         \* the sample get_table_data returned for the target
    vl_result           \* the dict validate_checksum returned

\* CheckpointManager (src/src/migration/checkpoint.py)
VARIABLES
    ck_files,           \* per table: does its file exist, and the dict in it
    ck_op,              \* the method called last and its table
    ck_ret,             \* what that call returned
    ck_saved            \* per table: the values of the latest save that returned
                        \* True if no reset returned True since, else none

\* the variables of the utilities, the validator and the checkpoints
utilVars == <<rt_via, rt_max_retries, rt_delay, rt_backoff, rt_pc, rt_retries,
              rt_current_delay, rt_last_exception, rt_history, rt_slept,
              rt_result, vl_pc, vl_pg_data, vl_ob_data, vl_result,
              ck_files, ck_op, ck_ret, ck_saved>>

\* the variables of the components other than the data pipeline
others == <<convVars, ddlVars, msVars, mainVars, utilVars>>

dataVars == <<chunk_size, batch_size, max_retries, continue_on_error, pc, tbl,
              total_count, migrated, failed, retry_count, data_len, result,
              results, source_rows, target, reads, writes, read_offset,
              exc_offset, exceptions, source_changed>>

vars == <<dataVars, others>>
\* the variables a call on the TypeConverter leaves alone
notConv == <<dataVars, ddlVars, msVars, mainVars, utilVars>>
\* the variables a call on the DDL generator leaves alone
notDdl == <<dataVars, msVars, mainVars, utilVars, column_info, ignore_types,
            conv_op, ignore_ret, type_ret>>
\* the variables migrate_schema leaves alone
notMs == <<dataVars, convVars, ddlVars, mainVars, utilVars>>
\* the variables main's phases leave alone
notMain == <<dataVars, convVars, ddlVars, msVars, utilVars>>

config == <<chunk_size, batch_size, max_retries, continue_on_error>>
locals == <<total_count, migrated, failed, retry_count, data_len>>
observed == <<reads, writes, read_offset, exc_offset, exceptions>>

NoResult == [table_name |-> "", status |-> "none"]
EmptyTarget == [r \in 1..MaxRows |-> 0]

\* a type string is the sequence of its characters
NoColumn == [data_type |-> <<>>, udt_name |-> <<>>]
NoType == [template |-> ""]

\* the converter is not in use
ConvIdle ==
    /\ column_info = NoColumn
    /\ type_mapping = {}
    /\ ignore_types = <<>>
    /\ conv_op = ""
    /\ ignore_ret = FALSE
    /\ type_ret = NoType

\* no schema read yet, no statement generated yet
NoSchema == [columns |-> <<>>, primary_keys |-> <<>>]
NoDdl == [column_defs |-> <<>>, primary_key |-> <<>>, ignored_columns |-> <<>>]

DdlIdle ==
    /\ schema = NoSchema
    /\ ddl_ignore_types = <<>>
    /\ ddl = NoDdl
    /\ nd_base_type = <<>>
    /\ column_default = <<>>
    /\ normalized_default = <<>>
    /\ ddl_op = ""

\* what is known of one table before migrate_schema handles it
NoLog == [created |-> FALSE, fetched |-> FALSE, ignored_columns |-> <<>>,
          reached |-> 0]

MsIdle ==
    /\ ms_source = <<>>
    /\ ms_pc = "idle"
    /\ ms_tbl = 1
    /\ ms_i = 1
    /\ ms_results = [success |-> <<>>, failed |-> <<>>,
                     ignored_columns |-> <<>>, indexes_failed |-> <<>>]
    /\ ms_issued = <<>>
    /\ ms_log = [k \in 1..NumTables |-> NoLog]

\* the columns a phase left out: none while the phase has not run
NoLeftOut == [ddl |-> {}, data |-> {}, validation_source |-> {},
              validation_target |-> {}]

MainIdle ==
    /\ mn_pc = "idle"
    /\ mn_schema = NoSchema
    /\ mn_ignore_types = <<>>
    /\ ignored_columns_map = {}
    /\ mn_target_columns = <<>>
    /\ mn_left_out = NoLeftOut

\* what a wrapper has returned or raised before it is called
NoOutcome == [kind |-> "none"]

\* no function is being retried
RetryIdle ==
    /\ rt_via = ""
    /\ rt_max_retries = 0
    /\ rt_delay = 0
    /\ rt_backoff = 0
    /\ rt_pc = "idle"
    /\ rt_retries = 0
    /\ rt_current_delay = 0
    /\ rt_last_exception = {}
    /\ rt_history = <<>>
    /\ rt_slept = <<>>
    /\ rt_result = NoOutcome

\* no checksum is being validated
ValidatorIdle ==
    /\ vl_pc = "idle"
    /\ vl_pg_data = <<>>
    /\ vl_ob_data = <<>>
    /\ vl_result = NoOutcome

\* the checkpoint directory right after os.makedirs created it
CheckpointIdle ==
    /\ ck_files = [k \in 1..NumTables |-> [exists |-> FALSE, json |-> {}]]
    /\ ck_op = NoOutcome
    /\ ck_ret = NoOutcome
    /\ ck_saved = [k \in 1..NumTables |-> {}]

OthersIdle ==
    /\ ConvIdle /\ DdlIdle /\ MsIdle /\ MainIdle
    /\ RetryIdle /\ ValidatorIdle /\ CheckpointIdle

\* the data pipeline before migrate_all_data is called
DataIdle ==
    /\ chunk_size = 1
    /\ batch_size = 1
    /\ max_retries = 0
    /\ continue_on_error = FALSE
    /\ pc = "idle"
    /\ tbl = 1
    /\ total_count = 0
    /\ migrated = 0
    /\ failed = 0
    /\ retry_count = 0
    /\ data_len = 0
    /\ result = NoResult
    /\ results = [success |-> <<>>, failed |-> <<>>, partial |-> <<>>,
                  skipped |-> <<>>]
    /\ source_rows = 0
    /\ target = EmptyTarget
    /\ reads = 0
    /\ writes = 0
    /\ read_offset = -1
    /\ exc_offset = -1
    /\ exceptions = 0
    /\ source_changed = FALSE

Init ==
    /\ OthersIdle
    /\ chunk_size \in 1..MaxChunk
    /\ batch_size \in 1..MaxBatch
    /\ max_retries \in 0..MaxRetries
    /\ continue_on_error \in BOOLEAN
    /\ pc = "count"
    /\ tbl = 1
    /\ total_count = 0
    /\ migrated = 0
    /\ failed = 0
    /\ retry_count = 0
    /\ data_len = 0
    /\ result = NoResult
    /\ results = [success |-> <<>>, failed |-> <<>>, partial |-> <<>>,
                  skipped |-> <<>>]
    /\ source_rows = 0
    /\ target = EmptyTarget
    /\ reads = 0
    /\ writes = 0
    /\ read_offset = -1
    /\ exc_offset = -1
    /\ exceptions = 0
    /\ source_changed = FALSE

\* ------------------------------------------------------- pure helpers

\* the empty-table test with the comparison turned around: no table is skipped
IsEmptyTable_Never(total) == total < 0

\* data.py line 60: the empty-table test
IsEmptyTable(total) == total = 0

\* data.py line 62: the dict returned for an empty table
SkippedResult(t) == [table_name |-> t, status |-> "skipped"]

\* the status when the failure counter is not consulted
StatusOf_AlwaysSuccess(f) == "success"

\* data.py line 131
StatusOf(f) == IF f = 0 THEN "success" ELSE "partial"

\* the result dict with the 'total' key forgotten
TableResult_NoTotal(t, m, f, total) ==
    [table_name |-> t, status |-> StatusOf(f), migrated |-> m, failed |-> f]

\* data.py lines 129-135: the dict returned after the chunk loop
TableResult(t, m, f, total) ==
    [table_name |-> t, status |-> StatusOf(f), migrated |-> m,
     failed |-> f, total |-> total]

\* the retry test that never gives up
MayRetry_Always(rc, maxr) == TRUE

\* data.py line 107: may the failed chunk be tried again
MayRetry(rc, maxr) == rc < maxr

\* data.py line 123: the failure counter after a caught exception
FailedAfterException(f, chunk) == f + chunk

\* the exception handler without its break
AbortsOnException_Never(coe) == FALSE

\* data.py line 124: does a caught exception end the chunk loop
AbortsOnException(coe) == ~coe

\* the read that ignores its limit and returns every row after the offset
RowsRead_NoLimit(rows, offset, limit) == Max(0, rows - offset)

\* postgres.py lines 99-104: rows returned by OFFSET offset LIMIT limit
RowsRead(rows, offset, limit) == Min(limit, Max(0, rows - offset))

\* oceanbase.py line 46: number of sub-batches of a chunk of n rows
NumBatches(n, b) == (n + b - 1) \div b

\* oceanbase.py lines 46-62: rows committed when sub-batch number fail_at
\* (0-based) raises; fail_at = NumBatches(n, b) means that none raises
RowsCommitted(n, b, fail_at) == Min(fail_at * b, n)

\* oceanbase.py lines 65, 69: the value insert_batch returns
InsertBatchReturn(n, b, fail_at) ==
    IF fail_at = NumBatches(n, b) THEN RowsCommitted(n, b, fail_at) ELSE 0

\* the target table after insert_batch committed c rows read at offset
Commit(tgt, offset, c) ==
    [r \in 1..MaxRows |->
        IF offset < r /\ r <= offset + c THEN tgt[r] + 1 ELSE tgt[r]]

\* the dispatch with the 'partial' branch missing: such a result falls through
\* to the final else
BucketOf_PartialFallsThrough(status) ==
    IF status = "success" THEN "success"
    ELSE IF status = "skipped" THEN "skipped"
    ELSE "failed"

\* data.py lines 154-161: the bucket a result goes to
BucketOf(status) ==
    IF status = "success" THEN "success"
    ELSE IF status = "partial" THEN "partial"
    ELSE IF status = "skipped" THEN "skipped"
    ELSE "failed"

\* ------------------------------------------------------------ actions

\* data.py lines 56-62: get_table_count returns; an empty table is skipped
GetTableCount ==
    /\ pc = "count"
    /\ \E n \in 0..MaxRows :
        /\ total_count' = n
        /\ source_rows' = n
        /\ IF IsEmptyTable(n)
              THEN /\ result' = SkippedResult(Tables[tbl])
                   /\ pc' = "dispatch"
              ELSE /\ result' = result
                   /\ pc' = "schema"
    /\ UNCHANGED <<others, config, tbl, migrated, failed, retry_count, data_len,
                   results, target, observed, source_changed>>

\* data.py line 57: get_table_count raises; nothing catches it up to the
\* caller of migrate_all_data
GetTableCountRaises ==
    /\ pc = "count"
    /\ pc' = "raised"
    /\ UNCHANGED <<others, config, tbl, locals, result, results, source_rows, target,
                   observed, source_changed>>

\* data.py lines 64-73: the column type map is built, the counters start
GetColumnTypeMap ==
    /\ pc = "schema"
    /\ migrated' = 0
    /\ failed' = 0
    /\ retry_count' = 0
    /\ pc' = "loop"
    /\ UNCHANGED <<others, config, tbl, total_count, data_len, result, results,
                   source_rows, target, observed, source_changed>>

\* data.py lines 64-66: get_table_schema raises, outside the try block
GetColumnTypeMapRaises ==
    /\ pc = "schema"
    /\ pc' = "raised"
    /\ UNCHANGED <<others, config, tbl, locals, result, results, source_rows, target,
                   observed, source_changed>>

\* the read whose empty chunk is handed to the write all the same
ReadChunk_EmptyIsWritten ==
    /\ pc = "loop"
    /\ migrated < total_count
    /\ reads < MaxReads
    /\ data_len' = RowsRead(source_rows, migrated, chunk_size)
    /\ pc' = "write"
    /\ reads' = reads + 1
    /\ read_offset' = migrated
    /\ exc_offset' = -1
    /\ UNCHANGED <<others, config, tbl, total_count, migrated, failed, retry_count,
                   result, results, source_rows, target, writes, exceptions,
                   source_changed>>

\* data.py lines 75-95: the loop test holds, a chunk is read at offset
\* migrated and converted; an empty chunk ends the loop
ReadChunk ==
    /\ pc = "loop"
    /\ migrated < total_count
    /\ reads < MaxReads
    /\ LET n == RowsRead(source_rows, migrated, chunk_size) IN
        /\ data_len' = n
        /\ pc' = IF n = 0 THEN "return" ELSE "write"
    /\ reads' = reads + 1
    /\ read_offset' = migrated
    /\ exc_offset' = -1
    /\ UNCHANGED <<others, config, tbl, total_count, migrated, failed, retry_count,
                   result, results, source_rows, target, writes, exceptions,
                   source_changed>>

\* data.py lines 121-125: the handler of an exception raised in the try block
CatchException ==
    /\ failed' = FailedAfterException(failed, chunk_size)
    /\ pc' = IF AbortsOnException(continue_on_error) THEN "return" ELSE "loop"
    /\ exc_offset' = migrated
    /\ exceptions' = exceptions + 1

\* data.py lines 78-80, 121-125: get_table_data raises
ReadChunkRaises ==
    /\ pc = "loop"
    /\ migrated < total_count
    /\ reads < MaxReads
    /\ reads' = reads + 1
    /\ read_offset' = migrated
    /\ CatchException
    /\ UNCHANGED <<others, config, tbl, total_count, migrated, retry_count, data_len,
                   result, results, source_rows, target, writes,
                   source_changed>>

\* data.py line 75: the loop test fails
LoopEnd ==
    /\ pc = "loop"
    /\ ~(migrated < total_count)
    /\ pc' = "return"
    /\ UNCHANGED <<others, config, tbl, locals, result, results, source_rows, target,
                   observed, source_changed>>

\* data.py lines 98-119 with oceanbase.py lines 35-71: insert_batch writes the
\* chunk in sub-batches and returns; the counters are updated
InsertBatch ==
    /\ pc = "write"
    /\ \E fail_at \in 0..NumBatches(data_len, batch_size) :
        LET inserted == InsertBatchReturn(data_len, batch_size, fail_at) IN
        /\ target' = Commit(target, migrated,
                            RowsCommitted(data_len, batch_size, fail_at))
        /\ IF inserted = 0
              THEN /\ failed' = failed + data_len
                   /\ migrated' = migrated
                   /\ IF MayRetry(retry_count, max_retries)
                         THEN /\ retry_count' = retry_count + 1
                              /\ pc' = "loop"
                         ELSE /\ retry_count' = retry_count
                              /\ pc' = "return"
              ELSE /\ migrated' = migrated + inserted
                   /\ retry_count' = 0
                   /\ failed' = failed
                   /\ pc' = "loop"
    /\ writes' = writes + 1
    /\ UNCHANGED <<others, config, tbl, total_count, data_len, result, results,
                   source_rows, reads, read_offset, exc_offset, exceptions,
                   source_changed>>

\* oceanbase.py line 41, connection.py lines 79-85, data.py lines 121-125:
\* insert_batch raises before it writes anything (no target connection)
InsertBatchRaises ==
    /\ pc = "write"
    /\ writes' = writes + 1
    /\ CatchException
    /\ UNCHANGED <<others, config, tbl, total_count, migrated, retry_count, data_len,
                   result, results, source_rows, target, reads, read_offset,
                   source_changed>>

\* data.py lines 127-135: the result of a non-empty table
Return ==
    /\ pc = "return"
    /\ result' = TableResult(Tables[tbl], migrated, failed, total_count)
    /\ pc' = "dispatch"
    /\ UNCHANGED <<others, config, tbl, locals, results, source_rows, target,
                   observed, source_changed>>

\* data.py lines 150-163: the result goes to its bucket, the next table starts
\* or migrate_all_data returns
Dispatch ==
    /\ pc = "dispatch"
    /\ results' = [results EXCEPT ![BucketOf(result.status)] =
                                        Append(@, result)]
    /\ tbl' = tbl + 1
    /\ pc' = IF tbl = NumTables THEN "done" ELSE "count"
    /\ total_count' = 0
    /\ migrated' = 0
    /\ failed' = 0
    /\ retry_count' = 0
    /\ data_len' = 0
    /\ source_rows' = 0
    /\ target' = EmptyTarget
    /\ reads' = 0
    /\ writes' = 0
    /\ read_offset' = -1
    /\ exc_offset' = -1
    /\ exceptions' = 0
    /\ source_changed' = FALSE
    /\ UNCHANGED <<others, config, result>>

\* another session inserts or deletes source rows between two reads of the
\* chunk loop (observed at most once per table)
SourceChange ==
    /\ pc = "loop"
    /\ ~source_changed
    /\ \E n \in 0..MaxRows :
        /\ n # source_rows
        /\ source_rows' = n
    /\ source_changed' = TRUE
    /\ UNCHANGED <<others, config, pc, tbl, locals, result, results, target,
                   observed>>

Next ==
    \/ GetTableCount
    \/ GetTableCountRaises
    \/ GetColumnTypeMap
    \/ GetColumnTypeMapRaises
    \/ ReadChunk
    \/ ReadChunkRaises
    \/ LoopEnd
    \/ InsertBatch
    \/ InsertBatchRaises
    \/ Return
    \/ Dispatch
    \/ SourceChange

Spec == Init /\ [][Next]_vars

\* -------------------------------------------------------------------
\* The chunk loop of migrate_table_data as it runs on: one step is one pass
\* through the loop body, the source and the target may behave in any way,
\* and no cap is put on the number of passes.  So that a loop that runs for
\* ever is a cycle of states, the passes are counted modulo 2 (in reads), the
\* failed counter and the commits of a row are told apart only up to
\* MaxFailed, and the other call counters of the specification above stay
\* at their initial values.
\* -------------------------------------------------------------------

\* data.py lines 68-73: the state in which the chunk loop is entered
InitLive ==
    /\ OthersIdle
    /\ chunk_size \in 1..MaxChunk
    /\ batch_size \in 1..MaxBatch
    /\ max_retries \in 0..MaxRetries
    /\ continue_on_error \in BOOLEAN
    /\ pc = "loop"
    /\ tbl = 1
    /\ total_count \in 1..MaxRows
    /\ migrated = 0
    /\ failed = 0
    /\ retry_count = 0
    /\ data_len = 0
    /\ result = NoResult
    /\ results = [success |-> <<>>, failed |-> <<>>, partial |-> <<>>,
                  skipped |-> <<>>]
    /\ source_rows = total_count
    /\ target = EmptyTarget
    /\ reads = 0
    /\ writes = 0
    /\ read_offset = -1
    /\ exc_offset = -1
    /\ exceptions = 0
    /\ source_changed = FALSE

\* data.py lines 75-125: one pass through the body of the chunk loop.  The
\* read returns any number of rows up to chunk_size or raises; the write
\* returns what insert_batch returns for some failing sub-batch or raises.
Iteration ==
    /\ pc = "loop"
    /\ migrated < total_count
    /\ \/ \* get_table_data or insert_batch raises (lines 121-125)
          /\ failed' = Min(FailedAfterException(failed, chunk_size), MaxFailed)
          /\ pc' = IF AbortsOnException(continue_on_error)
                      THEN "return" ELSE "loop"
          /\ UNCHANGED <<migrated, retry_count, data_len, target>>
       \/ \* the read returns no rows (lines 82-83)
          /\ data_len' = 0
          /\ pc' = "return"
          /\ UNCHANGED <<migrated, failed, retry_count, target>>
       \/ \* the read returns n rows, insert_batch returns (lines 85-119)
          \E n \in 1..chunk_size :
          \E fail_at \in 0..NumBatches(n, batch_size) :
            LET inserted == InsertBatchReturn(n, batch_size, fail_at) IN
            /\ data_len' = n
            /\ target' = [r \in 1..MaxRows |->
                            Min(Commit(target, migrated,
                                  RowsCommitted(n, batch_size, fail_at))[r],
                                MaxFailed)]
            /\ IF inserted = 0
                  THEN /\ failed' = Min(failed + n, MaxFailed)
                       /\ migrated' = migrated
                       /\ IF MayRetry(retry_count, max_retries)
                             THEN /\ retry_count' = retry_count + 1
                                  /\ pc' = "loop"
                             ELSE /\ retry_count' = retry_count
                                  /\ pc' = "return"
                  ELSE /\ migrated' = migrated + inserted
                       /\ retry_count' = 0
                       /\ failed' = failed
                       /\ pc' = "loop"
    /\ reads' = (reads + 1) % 2
    /\ UNCHANGED <<others, config, tbl, total_count, result, results,
                   source_rows, writes, read_offset, exc_offset, exceptions,
                   source_changed>>

NextLive ==
    \/ Iteration
    \/ LoopEnd

\* the interpreter keeps executing the loop: a pass that can be taken is taken
SpecLive == InitLive /\ [][NextLive]_vars /\ WF_vars(NextLive)



\* ===================================================================
\* Strings.  A Python str is modelled as the sequence of its characters.
\* ===================================================================

UpperCase == <<"A", "B", "C", "D", "E", "F", "G", "H", "I", "J", "K", "L", "M">> \o
             <<"N", "O", "P", "Q", "R", "S", "T", "U", "V", "W", "X", "Y", "Z">>
LowerCase == <<"a", "b", "c", "d", "e", "f", "g", "h", "i", "j", "k", "l", "m">> \o
             <<"n", "o", "p", "q", "r", "s", "t", "u", "v", "w", "x", "y", "z">>
Digits == {"0", "1", "2", "3", "4", "5", "6", "7", "8", "9"}

\* str.lower() and str.upper()
LowerChar(c) ==
    IF \E i \in DOMAIN UpperCase : UpperCase[i] = c
        THEN LowerCase[CHOOSE i \in DOMAIN UpperCase : UpperCase[i] = c]
        ELSE c
UpperChar(c) ==
    IF \E i \in DOMAIN LowerCase : LowerCase[i] = c
        THEN UpperCase[CHOOSE i \in DOMAIN LowerCase : LowerCase[i] = c]
        ELSE c
Lower(str) == [i \in 1..Len(str) |-> LowerChar(str[i])]
Upper(str) == [i \in 1..Len(str) |-> UpperChar(str[i])]

\* sub in str
IsSubstring(sub, str) ==
    \E i \in 0..(Len(str) - Len(sub)) : SubSeq(str, i + 1, i + Len(sub)) = sub

\* str.startswith(prefix), str.endswith(suffix)
StartsWith(str, prefix) ==
    Len(prefix) <= Len(str) /\ SubSeq(str, 1, Len(prefix)) = prefix
EndsWith(str, suffix) ==
    Len(suffix) <= Len(str)
        /\ SubSeq(str, Len(str) - Len(suffix) + 1, Len(str)) = suffix

\* the sequences of length 0..n over the set S
SeqsUpTo(S, n) == UNION {[1..k -> S] : k \in 0..n}

\* ===================================================================
\* TypeConverter (src/src/migration/converter.py)
\* ===================================================================

MaxRules == 2       \* longest ignore rule list
MaxPrecision == 2   \* largest numeric_precision and numeric_scale
MaxLength == 1      \* largest character_maximum_length

DefaultPrecision == 10
DefaultScale == 0
DefaultLength == 255
DefaultCharLength == 1

\* dict.get(key): the empty set is None, {v} is the value v
None == {}
Some(S) == {{v} : v \in S}
IsNone(opt) == opt = {}
ValueOf(opt) == CHOOSE v \in opt : TRUE

\* Python's `opt or default` on an optional integer: None and 0 are falsy
PyOr(opt, default) ==
    IF IsNone(opt) \/ opt = {0} THEN default ELSE ValueOf(opt)

\* (data_type, udt_name) of the columns offered to should_ignore_column
Columns ==
    { [data_type |-> <<"j", "s", "o", "n">>, udt_name |-> <<"j", "s", "o", "n">>],
      [data_type |-> <<"j", "s", "o", "n", "b">>, udt_name |-> <<"j", "s", "o", "n", "b">>],
      [data_type |-> <<"t", "e", "x", "t", "[", "]">>, udt_name |-> <<"_", "t", "e", "x", "t">>],
      [data_type |-> <<"A", "R", "R", "A", "Y">>, udt_name |-> <<"_", "i", "n", "t", "4">>],
      [data_type |-> <<"v", "a", "r", "c", "h", "a", "r">>, udt_name |-> <<"v", "a", "r", "c", "h", "a", "r">>],
      [data_type |-> <<"i", "n", "t", "e", "g", "e", "r">>, udt_name |-> <<"i", "n", "t", "4">>],
      [data_type |-> <<"U", "S", "E", "R", "-", "D", "E", "F", "I", "N", "E", "D">>, udt_name |-> <<"J", "s", "o", "n", "D", "o", "c">>],
      [data_type |-> <<"b", "o", "o", "l", "e", "a", "n">>, udt_name |-> <<"b", "o", "o", "l">>] }

\* the rules an ignore list is made of
Rules ==
    { <<"j", "s", "o", "n">>, <<"j", "s", "o", "n", "b">>, <<"a", "r", "r", "a", "y">>,
      <<"_", "a", "r", "r", "a", "y">>, <<"J", "S", "O", "N">> }

RuleLists == SeqsUpTo(Rules, MaxRules)

\* converter.py lines 76-82: the loop from rule number i on
RECURSIVE should_ignore_from(_, _, _, _)
should_ignore_from(data_type, udt_name, rules, i) ==
    IF i > Len(rules) THEN FALSE
    ELSE IF IsSubstring(rules[i], data_type) THEN TRUE
    ELSE IF IsSubstring(rules[i], udt_name) THEN TRUE
    ELSE IF StartsWith(udt_name, <<"_">>) THEN TRUE
    ELSE should_ignore_from(data_type, udt_name, rules, i + 1)

\* the loop that gives up after its first rule
should_ignore_column_first_rule_only(col, rules) ==
    /\ Len(rules) > 0
    /\ \/ IsSubstring(rules[1], Lower(col.data_type))
       \/ IsSubstring(rules[1], Lower(col.udt_name))

\* converter.py lines 70-84
should_ignore_column(col, rules) ==
    should_ignore_from(Lower(col.data_type), Lower(col.udt_name), rules, 1)

\* a mapping is a set of <<key, template>> pairs; dict.get(key, default)
MapGet(m, key, default) ==
    IF \E e \in m : e[1] = key
        THEN (CHOOSE e \in m : e[1] = key)[2]
        ELSE default

\* the entries of config/type_mapping.yaml that tests/test_converter.py pins
TestedMapping ==
    { <<<<"i", "n", "t", "e", "g", "e", "r">>, "INT">>,
      <<<<"b", "o", "o", "l", "e", "a", "n">>, "TINYINT(1)">>,
      <<<<"t", "e", "x", "t">>, "LONGTEXT">>,
      <<<<"d", "e", "c", "i", "m", "a", "l">>, "DECIMAL({precision},{scale})">>,
      <<<<"v", "a", "r", "c", "h", "a", "r">>, "VARCHAR({length})">>,
      <<<<"c", "h", "a", "r">>, "CHAR({length})">> }

TypeMappings == {{}, TestedMapping}

\* converter.py lines 19-25
TypeAlias(base_type) ==
    IF base_type = <<"c", "h", "a", "r", "a", "c", "t", "e", "r", " ", "v", "a", "r", "y", "i", "n", "g">> THEN <<"v", "a", "r", "c", "h", "a", "r">>
    ELSE IF base_type = <<"c", "h", "a", "r", "a", "c", "t", "e", "r">> THEN <<"c", "h", "a", "r">>
    ELSE IF base_type = <<"t", "i", "m", "e", "s", "t", "a", "m", "p", " ", "w", "i", "t", "h", " ", "t", "i", "m", "e", " ", "z", "o", "n", "e">>
        THEN <<"t", "i", "m", "e", "s", "t", "a", "m", "p", "t", "z">>
    ELSE IF base_type = <<"t", "i", "m", "e", "s", "t", "a", "m", "p", " ", "w", "i", "t", "h", "o", "u", "t", " ", "t", "i", "m", "e", " ", "z", "o", "n", "e">>
        THEN <<"t", "i", "m", "e", "s", "t", "a", "m", "p">>
    ELSE base_type

\* the postgres types offered to convert_column_type
PostgresTypes ==
    { <<"d", "e", "c", "i", "m", "a", "l">>, <<"n", "u", "m", "e", "r", "i", "c">>, <<"N", "U", "M", "E", "R", "I", "C">>,
      <<"i", "n", "t", "e", "g", "e", "r">>, <<"c", "h", "a", "r", "a", "c", "t", "e", "r", " ", "v", "a", "r", "y", "i", "n", "g">>,
      <<"c", "h", "a", "r", "a", "c", "t", "e", "r">>, <<"j", "s", "o", "n", "b">> }

\* str.format: the template with the values substituted for its fields
FormatDecimal(template, precision, scale) ==
    [template |-> template, precision |-> precision, scale |-> scale]
FormatLength(template, length) == [template |-> template, length |-> length]
Unformatted(template) == [template |-> template]
Literal(str) == [template |-> "", literal |-> str]

\* converter.py lines 28-32
convert_decimal(m, info) ==
    FormatDecimal(MapGet(m, <<"d", "e", "c", "i", "m", "a", "l">>, "DECIMAL({precision},{scale})"),
                  PyOr(info.numeric_precision, DefaultPrecision),
                  PyOr(info.numeric_scale, DefaultScale))

\* converter.py lines 14-46
convert_column_type(m, postgres_type, info) ==
    LET base_type == TypeAlias(Lower(postgres_type))
        length == info.character_maximum_length
    IN  IF base_type \in {<<"d", "e", "c", "i", "m", "a", "l">>, <<"n", "u", "m", "e", "r", "i", "c">>}
            THEN convert_decimal(m, info)
        ELSE IF base_type \in {<<"c", "h", "a", "r">>, <<"v", "a", "r", "c", "h", "a", "r">>}
            THEN IF base_type = <<"v", "a", "r", "c", "h", "a", "r">> /\ IsNone(length)
                    THEN Unformatted(MapGet(m, <<"t", "e", "x", "t">>, "TEXT"))
                 ELSE IF \E e \in m : e[1] = base_type
                    THEN FormatLength(MapGet(m, base_type, ""),
                            PyOr(IF base_type = <<"c", "h", "a", "r">> /\ IsNone(length)
                                    THEN {DefaultCharLength} ELSE length,
                                 DefaultLength))
                 ELSE Literal(Upper(base_type))
        ELSE IF \E e \in m : e[1] = base_type
            THEN Unformatted(MapGet(m, base_type, ""))
        ELSE Literal(Upper(postgres_type))

\* the metadata of a column offered to convert_column_type
TypeInfos ==
    [data_type : PostgresTypes,
     numeric_precision : {None} \cup Some(0..MaxPrecision),
     numeric_scale : {None} \cup Some(0..MaxPrecision),
     character_maximum_length : {None} \cup Some(1..MaxLength)]

\* the converter is handed one column: a (data_type, udt_name) pair for
\* should_ignore_column or the type metadata for convert_column_type
InitConverter ==
    /\ column_info \in Columns \cup TypeInfos
    /\ type_mapping \in TypeMappings
    /\ ignore_types = <<>>
    /\ conv_op = ""
    /\ ignore_ret = FALSE
    /\ type_ret = NoType
    /\ DataIdle
    /\ RetryIdle
    /\ ValidatorIdle
    /\ CheckpointIdle
    /\ DdlIdle
    /\ MsIdle
    /\ MainIdle

\* converter.py lines 70-84: a call of should_ignore_column on the column,
\* with any rule list
CallShouldIgnoreColumn ==
    /\ column_info \in Columns
    /\ \E rules \in RuleLists :
        /\ ignore_types' = rules
        /\ ignore_ret' = should_ignore_column(column_info, rules)
    /\ conv_op' = "should_ignore_column"
    /\ UNCHANGED <<notConv, type_mapping, column_info, type_ret>>

\* converter.py lines 14-46: a call of convert_column_type on the column
CallConvertColumnType ==
    /\ column_info \in TypeInfos
    /\ conv_op = ""
    /\ type_ret' = convert_column_type(type_mapping, column_info.data_type,
                                       column_info)
    /\ conv_op' = "convert_column_type"
    /\ UNCHANGED <<notConv, type_mapping, column_info, ignore_types, ignore_ret>>

NextConverter ==
    \/ CallShouldIgnoreColumn
    \/ CallConvertColumnType

SpecConverter == InitConverter /\ [][NextConverter]_vars


\* ===================================================================
\* SchemaMigrator: _normalize_default and generate_create_table_sql
\* (src/src/migration/schema.py)
\* ===================================================================

MaxColumns == 2      \* most columns of a table schema
MaxPrimaryKeys == 2  \* most names in a schema's primary_keys
MaxDefaultLen == 4   \* longest default expression drawn over ( ) a

SetMin(S) == CHOOSE i \in S : \A j \in S : i <= j
SetMax(S) == CHOOSE i \in S : \A j \in S : i >= j

\* str.strip() (blanks are the only whitespace drawn)
Strip(str) ==
    LET solid == {i \in 1..Len(str) : str[i] # " "}
    IN  IF solid = {} THEN <<>> ELSE SubSeq(str, SetMin(solid), SetMax(solid))

\* expr[1:-1]
Inner(expr) == SubSeq(expr, 2, Len(expr) - 1)

\* schema.py lines 28-29
StripParens(expr) ==
    IF StartsWith(expr, <<"(">>) /\ EndsWith(expr, <<")">>)
        THEN Strip(Inner(expr))
        ELSE expr

\* the characters of the class [A-Za-z0-9_ ]
WordChars ==
    {UpperCase[i] : i \in DOMAIN UpperCase}
        \cup {LowerCase[i] : i \in DOMAIN LowerCase} \cup Digits \cup {"_", " "}

\* schema.py line 31: re.sub(r"::[A-Za-z0-9_ ]+$", "", expr)
RemoveCast(expr) ==
    LET cuts == {i \in 1..(Len(expr) - 2) :
                    /\ expr[i] = ":"
                    /\ expr[i + 1] = ":"
                    /\ \A j \in (i + 2)..Len(expr) : expr[j] \in WordChars}
    IN  IF cuts = {} THEN expr ELSE SubSeq(expr, 1, SetMin(cuts) - 1)

\* schema.py lines 21-43
normalize_default(btype, default) ==
    IF default = <<>> THEN <<>>
    ELSE LET expr == Strip(RemoveCast(StripParens(Strip(default))))
             normalized == Lower(expr)
         IN  IF /\ btype = <<"b", "o", "o", "l", "e", "a", "n">>
                /\ normalized \in {<<"t", "r", "u", "e">>, <<"t">>, <<"1">>}
                THEN <<"1">>
             ELSE IF /\ btype = <<"b", "o", "o", "l", "e", "a", "n">>
                     /\ normalized \in {<<"f", "a", "l", "s", "e">>, <<"f">>, <<"0">>}
                THEN <<"0">>
             ELSE IF normalized = <<"n", "o", "w", "(", ")">>
                THEN <<"C", "U", "R", "R", "E", "N", "T", "_">> \o
                     <<"T", "I", "M", "E", "S", "T", "A", "M", "P">>
             ELSE expr

\* the default expressions offered to _normalize_default
DefaultExprs ==
    SeqsUpTo({"(", ")", "a"}, MaxDefaultLen) \cup
    { <<"'", "p", "'", ":", ":", "c", "h", "a", "r", "a", "c", "t", "e", "r", " ", "v", "a", "r", "y", "i", "n", "g">>,
      <<"'", "A", " ", "b", "'", ":", ":", "t", "e", "x", "t", " ">>,
      <<"(", "a", ")", " ", "+", " ", "(", "b", ")">>,
      <<" ", "(", " ", "0", " ", ")", " ">>,
      <<"(", "1", ")", ":", ":", "n", "u", "m", "e", "r", "i", "c", "(", "3", ",", "1", ")">>,
      <<"n", "o", "w", "(", ")">>, <<"N", "O", "W", "(", ")">>, <<"(", "n", "o", "w", "(", ")", ")">>,
      <<"t", "r", "u", "e">>, <<"T", "R", "U", "E">>, <<"t">>, <<"1">>, <<"0">>, <<"F">>,
      <<"f", "a", "l", "s", "e">>, <<"'", "t", "r", "u", "e", "'", ":", ":", "b", "o", "o", "l", "e", "a", "n">> }

\* the names of the columns, by position
ColumnNames == <<"id", "name", "tags", "note">>

\* a column as get_table_schema reports it
Column(name, data_type, udt_name, nullable, default) ==
    [column_name |-> name, data_type |-> data_type, udt_name |-> udt_name,
     is_nullable |-> nullable, column_default |-> default,
     numeric_precision |-> None, numeric_scale |-> None,
     character_maximum_length |-> None]

\* the kinds of column a schema is made of
ColumnKinds(name) ==
    { Column(name, <<"i", "n", "t", "e", "g", "e", "r">>, <<"i", "n", "t", "4">>, "NO", <<>>),
      Column(name, <<"i", "n", "t", "e", "g", "e", "r">>, <<"i", "n", "t", "4">>, "NO",
             <<"n", "e", "x", "t", "v", "a", "l", "(", "'", "s", "'", ")">>),
      Column(name, <<"b", "i", "g", "s", "e", "r", "i", "a", "l">>, <<"i", "n", "t", "8">>, "NO", <<>>),
      Column(name, <<"b", "o", "o", "l", "e", "a", "n">>, <<"b", "o", "o", "l">>, "YES", <<"t", "r", "u", "e">>),
      Column(name, <<"c", "h", "a", "r", "a", "c", "t", "e", "r", " ", "v", "a", "r", "y", "i", "n", "g">>,
             <<"v", "a", "r", "c", "h", "a", "r">>, "YES", <<"'", "p", "'", ":", ":", "t", "e", "x", "t">>),
      Column(name, <<"j", "s", "o", "n", "b">>, <<"j", "s", "o", "n", "b">>, "YES", <<>>),
      Column(name, <<"A", "R", "R", "A", "Y">>, <<"_", "t", "e", "x", "t">>, "YES", <<>>) }

\* a primary key may hold the columns' names and "ghost", naming no column
NoRepeat(seq) == \A i, j \in 1..Len(seq) : i # j => seq[i] # seq[j]

Schemas ==
    UNION { [columns : {cols \in [1..n -> UNION {ColumnKinds(ColumnNames[i]) :
                                                    i \in 1..n}] :
                            \A i \in 1..n : cols[i].column_name = ColumnNames[i]},
             primary_keys : {pk \in SeqsUpTo({ColumnNames[i] : i \in 1..n}
                                                \cup {"ghost"},
                                             MaxPrimaryKeys) : NoRepeat(pk)}]
            : n \in 1..MaxColumns }

\* the rule lists offered to generate_create_table_sql
DdlRuleLists ==
    { <<>>, <<<<"j", "s", "o", "n">>>>,
      <<<<"j", "s", "o", "n">>, <<"j", "s", "o", "n", "b">>, <<"a", "r", "r", "a", "y">>>> }

\* schema.py lines 78-81
IsPrimary(col, primary_keys) ==
    \E i \in 1..Len(primary_keys) : primary_keys[i] = col.column_name
IsSerial(col) ==
    \/ Lower(col.data_type) \in {<<"s", "e", "r", "i", "a", "l">>, <<"b", "i", "g", "s", "e", "r", "i", "a", "l">>}
    \/ IsSubstring(<<"n", "e", "x", "t", "v", "a", "l", "(">>, Lower(col.column_default))

\* schema.py line 90 without the primary-key test
AutoIncrement_AnySerial(col, primary_keys) == IsSerial(col)

\* schema.py line 90
AutoIncrement(col, primary_keys) == IsPrimary(col, primary_keys) /\ IsSerial(col)

\* schema.py lines 65-94: the definition of one kept column
ColumnDef(m, col, primary_keys) ==
    [name |-> col.column_name,
     type |-> convert_column_type(m, col.data_type, col),
     not_null |-> col.is_nullable = "NO",
     default |-> IF IsSerial(col) THEN <<>>
                 ELSE normalize_default(Lower(col.data_type), col.column_default),
     auto_increment |-> AutoIncrement(col, primary_keys)]

\* schema.py lines 56-61 keeping every column
Kept_All(columns, rules) == columns

\* schema.py lines 56-61: filtered_columns and ignored_columns
Kept(columns, rules) ==
    LET keep(col) == ~should_ignore_column(col, rules)
    IN  SelectSeq(columns, keep)
Ignored(columns, rules) ==
    LET drop(col) == should_ignore_column(col, rules)
        dropped == SelectSeq(columns, drop)
    IN  [i \in 1..Len(dropped) |-> dropped[i].column_name]

\* schema.py line 97
ValidPrimaryKeys(primary_keys, ignored_columns) ==
    LET valid(pk) == \A i \in 1..Len(ignored_columns) : ignored_columns[i] # pk
    IN  SelectSeq(primary_keys, valid)

\* schema.py lines 45-111: the statement as its parts; an empty primary_key
\* is a statement without PRIMARY KEY clause
generate_create_table_sql(m, sch, rules) ==
    LET kept == Kept(sch.columns, rules)
        ignored_columns == Ignored(sch.columns, rules)
    IN  [column_defs |-> [i \in 1..Len(kept) |->
                            ColumnDef(m, kept[i], sch.primary_keys)],
         primary_key |-> ValidPrimaryKeys(sch.primary_keys, ignored_columns),
         ignored_columns |-> ignored_columns]

\* the generator is given either a schema or a default expression
InitDdl ==
    /\ DataIdle
    /\ RetryIdle
    /\ ValidatorIdle
    /\ CheckpointIdle
    /\ MsIdle
    /\ MainIdle
    /\ column_info = NoColumn
    /\ type_mapping \in TypeMappings
    /\ ignore_types = <<>>
    /\ conv_op = ""
    /\ ignore_ret = FALSE
    /\ type_ret = NoType
    /\ ddl = NoDdl
    /\ normalized_default = <<>>
    /\ ddl_op = ""
    /\ \/ /\ schema \in Schemas
          /\ ddl_ignore_types \in DdlRuleLists
          /\ nd_base_type = <<>>
          /\ column_default = <<>>
       \/ /\ schema = NoSchema
          /\ ddl_ignore_types = <<>>
          /\ nd_base_type \in {<<"b", "o", "o", "l", "e", "a", "n">>,
                               <<"i", "n", "t", "e", "g", "e", "r">>}
          /\ column_default \in DefaultExprs

\* schema.py lines 45-111
GenerateCreateTableSql ==
    /\ ddl_op = ""
    /\ schema # NoSchema
    /\ ddl' = generate_create_table_sql(type_mapping, schema, ddl_ignore_types)
    /\ ddl_op' = "generate_create_table_sql"
    /\ UNCHANGED <<notDdl, type_mapping, schema, ddl_ignore_types, nd_base_type,
                   column_default, normalized_default>>

\* schema.py lines 21-43
NormalizeDefault ==
    /\ ddl_op = ""
    /\ schema = NoSchema
    /\ normalized_default' = normalize_default(nd_base_type, column_default)
    /\ ddl_op' = "_normalize_default"
    /\ UNCHANGED <<notDdl, type_mapping, schema, ddl_ignore_types, ddl,
                   nd_base_type, column_default>>

NextDdl ==
    \/ GenerateCreateTableSql
    \/ NormalizeDefault

SpecDdl == InitDdl /\ [][NextDdl]_vars


\* ===================================================================
\* SchemaMigrator.migrate_schema (src/src/migration/schema.py)
\* ===================================================================

MaxIndexes == 2   \* most non-primary indexes of a table

\* schema.py line 125
DefaultIgnoreTypes ==
    <<<<"j", "s", "o", "n">>, <<"j", "s", "o", "n", "b">>, <<"a", "r", "r", "a", "y">>>>

\* the schemas get_table_schema returns: tags is a text or a jsonb column
MsSchemas ==
    LET id == Column("id", <<"i", "n", "t", "e", "g", "e", "r">>, <<"i", "n", "t", "4">>, "NO", <<>>)
        name == Column("name", <<"c", "h", "a", "r", "a", "c", "t", "e", "r", " ", "v", "a", "r", "y", "i", "n", "g">>,
                       <<"v", "a", "r", "c", "h", "a", "r">>, "YES", <<>>)
        tags == Column("tags", <<"j", "s", "o", "n", "b">>, <<"j", "s", "o", "n", "b">>, "YES", <<>>)
        text == Column("tags", <<"t", "e", "x", "t">>, <<"t", "e", "x", "t">>, "YES", <<>>)
    IN  { [columns |-> <<id, name, text>>, primary_keys |-> <<"id">>],
          [columns |-> <<id, name, tags>>, primary_keys |-> <<"id">>] }

\* the non-primary indexes get_table_indexes may report
IndexInfos ==
    { [index_name |-> "ix_name", columns |-> <<"name">>, is_unique |-> FALSE],
      [index_name |-> "ix_name_tags", columns |-> <<"name", "tags">>,
       is_unique |-> FALSE],
      [index_name |-> "ux_name_id", columns |-> <<"name", "id">>,
       is_unique |-> TRUE] }
IndexLists == {l \in SeqsUpTo(IndexInfos, MaxIndexes) : NoRepeat(l)}

\* schema.py line 156 skipping only an index that is ignored entirely
RefersToIgnored_All(index_info, ignored) ==
    \A i \in 1..Len(index_info.columns) :
        \E j \in 1..Len(ignored) : ignored[j] = index_info.columns[i]

\* schema.py line 156
RefersToIgnored(index_info, ignored) ==
    \E i \in 1..Len(index_info.columns) :
        \E j \in 1..Len(ignored) : ignored[j] = index_info.columns[i]

\* schema.py lines 113-119: the statement as its parts
generate_create_index_sql(table_name, index_name, columns, is_unique) ==
    [table_name |-> table_name, index_name |-> index_name,
     columns |-> columns, is_unique |-> is_unique]

\* the source database: each table's schema and non-primary indexes
InitMs ==
    /\ DataIdle
    /\ RetryIdle
    /\ ValidatorIdle
    /\ CheckpointIdle
    /\ ConvIdle
    /\ DdlIdle
    /\ MainIdle
    /\ ms_source \in [1..NumTables -> [pg_schema : MsSchemas,
                                        indexes : IndexLists]]
    /\ ms_pc = "table"
    /\ ms_tbl = 1
    /\ ms_i = 1
    /\ ms_results = [success |-> <<>>, failed |-> <<>>,
                     ignored_columns |-> <<>>, indexes_failed |-> <<>>]
    /\ ms_issued = <<>>
    /\ ms_log = [k \in 1..NumTables |-> NoLog]

\* schema.py line 134: the next table, or line 182 after the last one
NextTable ==
    /\ ms_tbl' = ms_tbl + 1
    /\ ms_i' = 1
    /\ ms_pc' = IF ms_tbl < NumTables THEN "table" ELSE "done"

\* schema.py lines 178-180
MsExcept ==
    /\ ms_results' = [ms_results EXCEPT !.failed = Append(@, Tables[ms_tbl])]
    /\ NextTable

\* schema.py line 137 raises
GetTableSchemaRaises ==
    /\ ms_pc = "table"
    /\ MsExcept
    /\ UNCHANGED <<notMs, ms_source, ms_issued, ms_log>>

\* schema.py lines 137-143: the ignored columns of the generated statement
IgnoredBySchema ==
    [pg_schema \in MsSchemas |-> Ignored(pg_schema.columns, DefaultIgnoreTypes)]
IgnoredOf(k) == IgnoredBySchema[ms_source[k].pg_schema]
RecordIgnored(res, ignored) ==
    [res EXCEPT !.ignored_columns = Append(@, <<Tables[ms_tbl], ignored>>)]

\* schema.py lines 137-146 with create_table raising
CreateTableRaises ==
    /\ ms_pc = "table"
    /\ LET ignored == IgnoredOf(ms_tbl)
       IN  /\ ms_results' = [RecordIgnored(ms_results, ignored) EXCEPT
                                !.failed = Append(@, Tables[ms_tbl])]
           /\ ms_log' = [ms_log EXCEPT ![ms_tbl].ignored_columns = ignored]
    /\ NextTable
    /\ UNCHANGED <<notMs, ms_source, ms_issued>>

\* schema.py lines 137-148 and 175-177: create_table returns False
CreateTableFails ==
    /\ ms_pc = "table"
    /\ LET ignored == IgnoredOf(ms_tbl)
       IN  /\ ms_results' = [RecordIgnored(ms_results, ignored) EXCEPT
                                !.failed = Append(@, Tables[ms_tbl])]
           /\ ms_log' = [ms_log EXCEPT ![ms_tbl].ignored_columns = ignored]
    /\ NextTable
    /\ UNCHANGED <<notMs, ms_source, ms_issued>>

\* schema.py lines 137-150: create_table returns True
CreateTable ==
    /\ ms_pc = "table"
    /\ LET ignored == IgnoredOf(ms_tbl)
       IN  /\ ms_results' = [RecordIgnored(ms_results, ignored) EXCEPT
                                !.success = Append(@, Tables[ms_tbl])]
           /\ ms_log' = [ms_log EXCEPT ![ms_tbl].ignored_columns = ignored,
                                       ![ms_tbl].created = TRUE]
    /\ ms_pc' = "indexes"
    /\ UNCHANGED <<notMs, ms_source, ms_tbl, ms_i, ms_issued>>

\* schema.py line 153
GetTableIndexes ==
    /\ ms_pc = "indexes"
    /\ ms_log' = [ms_log EXCEPT ![ms_tbl].fetched = TRUE]
    /\ ms_pc' = "index"
    /\ UNCHANGED <<notMs, ms_source, ms_tbl, ms_i, ms_results, ms_issued>>

\* schema.py line 153 raises
GetTableIndexesRaises ==
    /\ ms_pc = "indexes"
    /\ MsExcept
    /\ UNCHANGED <<notMs, ms_source, ms_issued, ms_log>>

\* schema.py line 154: the loop is over
IndexesDone ==
    /\ ms_pc = "index"
    /\ ms_i > Len(ms_source[ms_tbl].indexes)
    /\ NextTable
    /\ UNCHANGED <<notMs, ms_source, ms_results, ms_issued, ms_log>>

\* schema.py lines 155-161
SkipIndex ==
    /\ ms_pc = "index"
    /\ ms_i <= Len(ms_source[ms_tbl].indexes)
    /\ RefersToIgnored(ms_source[ms_tbl].indexes[ms_i],
                       ms_log[ms_tbl].ignored_columns)
    /\ ms_i' = ms_i + 1
    /\ ms_log' = [ms_log EXCEPT ![ms_tbl].reached = ms_i]
    /\ UNCHANGED <<notMs, ms_source, ms_pc, ms_tbl, ms_results, ms_issued>>

\* schema.py lines 163-169: the statement handed to create_index
IssueIndex ==
    LET index_info == ms_source[ms_tbl].indexes[ms_i]
    IN  /\ ms_pc = "index"
        /\ ms_i <= Len(ms_source[ms_tbl].indexes)
        /\ ~RefersToIgnored(index_info, ms_log[ms_tbl].ignored_columns)
        /\ ms_issued' = Append(ms_issued,
                generate_create_index_sql(Tables[ms_tbl], index_info.index_name,
                                          index_info.columns, index_info.is_unique))
        /\ ms_log' = [ms_log EXCEPT ![ms_tbl].reached = ms_i]

\* schema.py lines 163-174: create_index returns True or False
CreateIndex ==
    /\ IssueIndex
    /\ \E index_success \in BOOLEAN :
        ms_results' =
            IF index_success THEN ms_results
            ELSE [ms_results EXCEPT !.indexes_failed =
                    Append(@, [table_name |-> Tables[ms_tbl],
                               index_name |->
                                   ms_source[ms_tbl].indexes[ms_i].index_name])]
    /\ ms_i' = ms_i + 1
    /\ UNCHANGED <<notMs, ms_source, ms_pc, ms_tbl>>

\* schema.py line 169 raises
CreateIndexRaises ==
    /\ IssueIndex
    /\ MsExcept
    /\ UNCHANGED <<notMs, ms_source>>

NextMs ==
    \/ GetTableSchemaRaises
    \/ CreateTableRaises
    \/ CreateTableFails
    \/ CreateTable
    \/ GetTableIndexes
    \/ GetTableIndexesRaises
    \/ IndexesDone
    \/ SkipIndex
    \/ CreateIndex
    \/ CreateIndexRaises

SpecMs == InitMs /\ [][NextMs]_vars


\* ===================================================================
\* main (src/src/main.py): the ignored columns through the phases of a run
\* ===================================================================

\* the schemas of the table: the ones of migrate_schema and one whose tags
\* column is an array
MainSchemas ==
    MsSchemas \cup
    { [columns |-> <<Column("id", <<"i", "n", "t", "e", "g", "e", "r">>, <<"i", "n", "t", "4">>, "NO", <<>>),
                     Column("tags", <<"A", "R", "R", "A", "Y">>, <<"_", "t", "e", "x", "t">>, "YES", <<>>)>>,
       primary_keys |-> <<"id">>] }

ColumnNamesOf(sch) == [i \in 1..Len(sch.columns) |-> sch.columns[i].column_name]
Range(seq) == {seq[i] : i \in 1..Len(seq)}

\* main.py lines 22-39 deciding by the default rules, not the configured ones
get_ignored_columns_default_rules(sch, rules) ==
    LET ignored_cols == Ignored(sch.columns, DefaultIgnoreTypes)
    IN  IF ignored_cols = <<>> THEN None ELSE {ignored_cols}

\* main.py lines 22-39: the table's entry of ignored_columns_map, None when
\* the table has none
get_ignored_columns(sch, rules) ==
    LET ignored_cols == Ignored(sch.columns, rules)
    IN  IF ignored_cols = <<>> THEN None ELSE {ignored_cols}

\* ignore_columns_map.get(table_name, [])
IgnoreColumns(entry) == IF IsNone(entry) THEN <<>> ELSE ValueOf(entry)

\* postgres.py lines 82-94 and oceanbase.py lines 91-108: the columns
\* get_table_data selects
SelectColumns(all_columns, exclude_columns) ==
    IF exclude_columns = <<>> THEN all_columns
    ELSE LET selected(col) == col \notin Range(exclude_columns)
         IN  SelectSeq(all_columns, selected)

\* the columns of the source table that a read or a statement leaves out
LeftOut(sch, present) == Range(ColumnNamesOf(sch)) \ Range(present)

\* main.py lines 84-88
InitMain ==
    /\ DataIdle
    /\ RetryIdle
    /\ ValidatorIdle
    /\ CheckpointIdle
    /\ DdlIdle
    /\ MsIdle
    /\ column_info = NoColumn
    /\ type_mapping \in TypeMappings
    /\ ignore_types = <<>>
    /\ conv_op = ""
    /\ ignore_ret = FALSE
    /\ type_ret = NoType
    /\ mn_pc = "ignored"
    /\ mn_schema \in MainSchemas
    /\ mn_ignore_types \in RuleLists \cup {DefaultIgnoreTypes}
    /\ ignored_columns_map = {}
    /\ mn_target_columns = <<>>
    /\ mn_left_out = NoLeftOut

\* main.py lines 101-103
GetIgnoredColumns ==
    /\ mn_pc = "ignored"
    /\ ignored_columns_map' = get_ignored_columns(mn_schema, mn_ignore_types)
    /\ mn_pc' = "schema"
    /\ UNCHANGED <<notMain, mn_schema, mn_ignore_types, mn_target_columns,
                   mn_left_out>>

\* main.py lines 106-118: migrate_schema generates and creates the table;
\* with --data-only the table is the one an earlier schema run created
SchemaPhase ==
    /\ mn_pc = "schema"
    /\ LET create == generate_create_table_sql(type_mapping, mn_schema,
                                               mn_ignore_types)
           defined == [i \in 1..Len(create.column_defs) |->
                            create.column_defs[i].name]
       IN  /\ mn_target_columns' = defined
           /\ \E data_only \in BOOLEAN :
                mn_left_out' =
                    IF data_only THEN mn_left_out
                    ELSE [mn_left_out EXCEPT
                            !.ddl = {LeftOut(mn_schema, defined)}]
    /\ mn_pc' = "data"
    /\ UNCHANGED <<notMain, mn_schema, mn_ignore_types, ignored_columns_map>>

\* main.py lines 121-135 with data.py lines 78-80
DataPhase ==
    /\ mn_pc = "data"
    /\ \E schema_only \in BOOLEAN :
        mn_left_out' =
            IF schema_only THEN mn_left_out
            ELSE [mn_left_out EXCEPT !.data =
                    {LeftOut(mn_schema,
                             SelectColumns(ColumnNamesOf(mn_schema),
                                           IgnoreColumns(ignored_columns_map)))}]
    /\ mn_pc' = "validate"
    /\ UNCHANGED <<notMain, mn_schema, mn_ignore_types, ignored_columns_map,
                   mn_target_columns>>

\* main.py lines 138-146 with validator.py lines 50-58
ValidationPhase ==
    /\ mn_pc = "validate"
    /\ \E validate \in BOOLEAN :
        mn_left_out' =
            IF ~validate THEN mn_left_out
            ELSE LET ignore_columns == IgnoreColumns(ignored_columns_map)
                 IN  [mn_left_out EXCEPT
                        !.validation_source =
                            {LeftOut(mn_schema,
                                     SelectColumns(ColumnNamesOf(mn_schema),
                                                   ignore_columns))},
                        !.validation_target =
                            {LeftOut(mn_schema,
                                     SelectColumns(mn_target_columns,
                                                   ignore_columns))}]
    /\ mn_pc' = "done"
    /\ UNCHANGED <<notMain, mn_schema, mn_ignore_types, ignored_columns_map,
                   mn_target_columns>>

NextMain ==
    \/ GetIgnoredColumns
    \/ SchemaPhase
    \/ DataPhase
    \/ ValidationPhase

SpecMain == InitMain /\ [][NextMain]_vars

\* ------------------------------------------------------------- claims

\* migrate_table_data has returned `result` to migrate_all_data, whose
\* bucket dispatch has not run yet: the locals and the call counters still
\* hold the values of that call
Returned == pc = "dispatch"

HasCounters(r) == {"migrated", "failed", "total"} \subseteq DOMAIN r

\* a call on a non-empty table in which nothing raised, the source did not
\* change and no write succeeded: every insert_batch returned 0
AllWritesFailed ==
    /\ Returned
    /\ total_count > 0
    /\ exceptions = 0
    /\ ~source_changed
    /\ migrated = 0

\* C1: when every write of a table fails and max_retries = k, exactly k
\* write attempts are made, each preceded by a read at offset 0, and the loop
\* then stops without a further read or write.
C1_ExactlyKAttempts ==
    (AllWritesFailed /\ max_retries >= 1) =>
        /\ writes = max_retries
        /\ reads = writes
        /\ read_offset = 0

\* C2: when the writes of a one-chunk table fail until the retries are
\* exhausted, the result is partial with migrated = 0 and failed = total.
C2_FailedIsTotal ==
    (AllWritesFailed /\ total_count <= chunk_size) =>
        /\ result.status = "partial"
        /\ result.migrated = 0
        /\ result.failed = result.total

\* C3: a table whose source row count is 0 is returned as 'skipped' and no
\* insert_batch call is issued during that call.
C3_EmptyTableSkipped ==
    (Returned /\ total_count = 0) =>
        /\ result.status = "skipped"
        /\ writes = 0
        /\ target = EmptyTarget

C3_Witness ==
    /\ Returned
    /\ total_count = 0
    /\ result = SkippedResult("t2")
    /\ writes = 0
    /\ Len(results.partial) = 1

\* C4: whenever the returned status is 'success', migrated equals total.
C4_SuccessMeansAll ==
    (Returned /\ result.status = "success") =>
        result.migrated = result.total

\* C5: a chunk written on a retry adds nothing to the failure counter: a
\* table whose every chunk is eventually written ends with failed = 0,
\* migrated = total and status 'success'.
C5_RetriedChunkNotFailed ==
    (Returned /\ total_count > 0 /\ exceptions = 0 /\ ~source_changed
        /\ migrated = total_count) =>
        /\ result.failed = 0
        /\ result.migrated = result.total
        /\ result.status = "success"

\* C6 as stated: every returned result, whatever its status, carries the
\* counters migrated, failed and total.
C6_AllCarryCounters == Returned => HasCounters(result)

\* C6 as amended: a 'success' or 'partial' result carries the counters
\* migrated, failed and total with the values the call ended with; a 'skipped'
\* result carries table_name and status only.
C6_CountersUnlessSkipped ==
    Returned =>
        IF result.status = "skipped"
            THEN DOMAIN result = {"table_name", "status"}
            ELSE /\ result.status \in {"success", "partial"}
                 /\ HasCounters(result)
                 /\ result.migrated = migrated
                 /\ result.failed = failed
                 /\ result.total = total_count

C6_Witness ==
    /\ Returned
    /\ result.status = "partial"
    /\ HasCounters(result)
    /\ Len(results.skipped) = 1
    /\ ~HasCounters(results.skipped[1])

\* C7: for a table with total > 0 the returned status is 'success' exactly
\* when the final failure counter is 0 and 'partial' exactly when it is
\* greater than 0; no other status is returned.
C7_StatusIffFailed ==
    (Returned /\ total_count > 0) =>
        /\ result.status \in {"success", "partial"}
        /\ (result.status = "success") <=> (failed = 0)
        /\ (result.status = "partial") <=> (failed > 0)

C7_Witness ==
    /\ Returned
    /\ total_count > 0
    /\ failed > 0
    /\ result.status = "partial"
    /\ Len(results.success) = 1

\* C8: when a chunk raises and continue_on_error is false, failed grows by
\* exactly chunk_size, migrated is unchanged, no further read or write is
\* issued for the table, and the result returned is 'partial'.
C8_AbortOnException ==
    [][ /\ (exceptions' = exceptions + 1 /\ ~continue_on_error) =>
            /\ failed' = failed + chunk_size
            /\ migrated' = migrated
            /\ pc' = "return"
        /\ (exceptions > 0 /\ ~continue_on_error /\ ~Returned) =>
            /\ reads' = reads
            /\ writes' = writes
            /\ target' = target
            /\ Returned'
            /\ result'.status = "partial"
            /\ result'.migrated = migrated
            /\ result'.failed = failed
      ]_vars

C8_Witness ==
    /\ Returned
    /\ ~continue_on_error
    /\ exceptions = 1
    /\ migrated > 0
    /\ result.status = "partial"
    /\ result.failed = chunk_size

\* C9: when a chunk raises and continue_on_error is true, the read that
\* follows the exception is issued at an offset beyond the failed chunk.
C9_NextOffsetAfterException ==
    [][ (continue_on_error /\ exc_offset # -1 /\ reads' = reads + 1) =>
            read_offset' > exc_offset ]_vars

\* C10: an error raised while a table is migrated, also while its rows are
\* counted or its schema is read, never propagates out of migrate_all_data,
\* and every following table is still migrated.
C10_NoPropagation == pc # "raised"

Buckets == {"success", "partial", "skipped", "failed"}

BucketTotal ==
    Len(results.success) + Len(results.partial) + Len(results.skipped)
        + Len(results.failed)

\* the position of a table in the list given by the caller
TableIndex(name) == CHOOSE k \in 1..NumTables : Tables[k] = name

\* C11: the tables are migrated one at a time in the caller's order; each
\* result is put into exactly one bucket, the one named by its status, and
\* when migrate_all_data returns the bucket sizes sum to the number of tables.
C11_OneBucketInOrder ==
    /\ BucketTotal = tbl - 1
    /\ pc = "done" => BucketTotal = NumTables
    /\ \A b \in Buckets : \A i \in 1..Len(results[b]) :
            results[b][i].status = b
    /\ \A k \in 1..(tbl - 1) :
            Cardinality({bi \in Buckets \X (1..NumTables) :
                            /\ bi[2] <= Len(results[bi[1]])
                            /\ results[bi[1]][bi[2]].table_name = Tables[k]}) = 1
    /\ \A b \in Buckets : \A i, j \in 1..Len(results[b]) :
            i < j => TableIndex(results[b][i].table_name)
                        < TableIndex(results[b][j].table_name)

C11_Witness ==
    /\ pc = "done"
    /\ Len(results.partial) = 1
    /\ Len(results.skipped) = 1
    /\ results.partial[1].table_name = "t1"
    /\ results.skipped[1].table_name = "t2"

\* ---------------------------------------------- converter claims

RuleSet(rules) == {rules[i] : i \in 1..Len(rules)}

\* C13: should_ignore_column returns true for every column whose udt_name
\* begins with '_', whatever the rule list, also an empty one; for any other
\* column it returns true exactly when some rule is a substring of the
\* lower-cased data_type or the lower-cased udt_name.
C13_IgnoreDecision ==
    conv_op = "should_ignore_column" =>
        (ignore_ret <=>
            \/ StartsWith(column_info.udt_name, <<"_">>)
            \/ \E r \in RuleSet(ignore_types) :
                \/ IsSubstring(r, Lower(column_info.data_type))
                \/ IsSubstring(r, Lower(column_info.udt_name)))

\* C14: should_ignore_column is monotone in the rule list: a column ignored
\* under a rule list is ignored under every list that contains all its rules.
C14_Monotone ==
    [][ ( /\ conv_op = "should_ignore_column"
          /\ conv_op' = "should_ignore_column"
          /\ column_info' = column_info
          /\ RuleSet(ignore_types) \subseteq RuleSet(ignore_types')
          /\ ignore_ret ) => ignore_ret' ]_vars

C14_Witness ==
    /\ conv_op = "should_ignore_column"
    /\ Len(ignore_types) = 2
    /\ ignore_types[1] = <<"a", "r", "r", "a", "y">>
    /\ ignore_types[2] = <<"j", "s", "o", "n">>
    /\ column_info.udt_name = <<"j", "s", "o", "n">>
    /\ ignore_ret

\* C20: for a decimal or numeric column convert_column_type substitutes the
\* precision and the scale exactly as given, for every integer present
\* (0 included), and uses 10 and 0 only for a value that is absent.
C20_PrecisionScaleExact ==
    ( /\ conv_op = "convert_column_type"
      /\ Lower(column_info.data_type)
            \in {<<"d", "e", "c", "i", "m", "a", "l">>,
                 <<"n", "u", "m", "e", "r", "i", "c">>} ) =>
        /\ type_ret.precision =
                IF IsNone(column_info.numeric_precision) THEN 10
                ELSE ValueOf(column_info.numeric_precision)
        /\ type_ret.scale =
                IF IsNone(column_info.numeric_scale) THEN 0
                ELSE ValueOf(column_info.numeric_scale)

\* ---------------------------------------------------- DDL claims

Generated == ddl_op = "generate_create_table_sql"
DefinedNames == {ddl.column_defs[i].name : i \in 1..Len(ddl.column_defs)}
IgnoredNames == {ddl.ignored_columns[i] : i \in 1..Len(ddl.ignored_columns)}
SchemaNames == {schema.columns[i].column_name : i \in 1..Len(schema.columns)}
PrimaryKeyNames == {schema.primary_keys[i] : i \in 1..Len(schema.primary_keys)}
SourceColumn(name) ==
    schema.columns[CHOOSE i \in 1..Len(schema.columns) :
                        schema.columns[i].column_name = name]
PositionOf(name) ==
    CHOOSE i \in 1..Len(schema.columns) : schema.columns[i].column_name = name

\* C15: every column named in the PRIMARY KEY clause of the generated
\* statement is a column defined in that statement; names that are ignored
\* or name no column of the schema are left out of the clause.
C15_PrimaryKeyDefined ==
    Generated =>
        \A i \in 1..Len(ddl.primary_key) : ddl.primary_key[i] \in DefinedNames

\* C16: a kept column that is serial, bigserial or has a nextval( default
\* is defined without DEFAULT clause and with AUTO_INCREMENT, whether or not
\* it belongs to the primary key.
C16_SerialAlwaysAutoIncrement ==
    Generated =>
        \A i \in 1..Len(ddl.column_defs) :
            IsSerial(SourceColumn(ddl.column_defs[i].name)) =>
                /\ ddl.column_defs[i].default = <<>>
                /\ ddl.column_defs[i].auto_increment

\* C16 as amended: such a column is defined without DEFAULT clause whether
\* or not it belongs to the primary key, and carries AUTO_INCREMENT exactly
\* when it is named in the schema's primary key.
C16_SerialAutoIncrementIffPrimary ==
    Generated =>
        \A i \in 1..Len(ddl.column_defs) :
            IsSerial(SourceColumn(ddl.column_defs[i].name)) =>
                /\ ddl.column_defs[i].default = <<>>
                /\ ddl.column_defs[i].auto_increment
                        <=> ddl.column_defs[i].name \in PrimaryKeyNames

C16_Witness ==
    /\ Generated
    /\ Len(ddl.column_defs) = 2
    /\ schema.columns[1].data_type = <<"b", "i", "g", "s", "e", "r", "i", "a", "l">>
    /\ schema.columns[2].column_default # <<>>
    /\ IsSerial(schema.columns[2])
    /\ schema.primary_keys = <<"id">>
    /\ ddl.column_defs[1].auto_increment
    /\ ~ddl.column_defs[2].auto_increment

\* C17: the generator partitions the schema's columns: each is either
\* defined in the statement or named in the returned ignored-columns list,
\* never both and never neither, and the defined columns keep their
\* declaration order.
C17_Partition ==
    Generated =>
        /\ DefinedNames \cup IgnoredNames = SchemaNames
        /\ DefinedNames \cap IgnoredNames = {}
        /\ Len(ddl.column_defs) + Len(ddl.ignored_columns) = Len(schema.columns)
        /\ \A i, j \in 1..Len(ddl.column_defs) :
                i < j => PositionOf(ddl.column_defs[i].name)
                            < PositionOf(ddl.column_defs[j].name)

C17_Witness ==
    /\ Generated
    /\ Len(schema.columns) = 2
    /\ DefinedNames = {"name"}
    /\ IgnoredNames = {"id"}

\* parentheses opened and not yet closed after the first i characters
Depth(expr, i) ==
    Cardinality({j \in 1..i : expr[j] = "("})
        - Cardinality({j \in 1..i : expr[j] = ")"})

\* the first and the last character are one pair of parentheses
EnclosedByOnePair(expr) ==
    /\ Len(expr) >= 2
    /\ expr[1] = "("
    /\ expr[Len(expr)] = ")"
    /\ \A i \in 1..(Len(expr) - 1) : Depth(expr, i) > 0

\* the stripped expression without its enclosing pair and its trailing cast
ExpectedExpr(default) ==
    LET stripped == Strip(default)
        opened == IF EnclosedByOnePair(stripped)
                    THEN Strip(Inner(stripped)) ELSE stripped
    IN  Strip(RemoveCast(opened))

ExpectedDefault(btype, default) ==
    LET expr == ExpectedExpr(default)
    IN  IF btype = <<"b", "o", "o", "l", "e", "a", "n">> /\ Lower(expr) \in {<<"t", "r", "u", "e">>, <<"t">>, <<"1">>}
            THEN <<"1">>
        ELSE IF btype = <<"b", "o", "o", "l", "e", "a", "n">> /\ Lower(expr) \in {<<"f", "a", "l", "s", "e">>, <<"f">>, <<"0">>}
            THEN <<"0">>
        ELSE IF Lower(expr) = <<"n", "o", "w", "(", ")">>
            THEN <<"C", "U", "R", "R", "E", "N", "T", "_", "T", "I", "M", "E", "S", "T", "A", "M", "P">>
        ELSE expr

\* C19: _normalize_default removes the outer parentheses only when they form
\* one pair enclosing the whole expression, removes a trailing ::type cast,
\* maps a boolean column's true/t/1 to 1, false/f/0 to 0 and now() to
\* CURRENT_TIMESTAMP (case-insensitively), and returns every other default
\* as the stripped expression, case and inner text unchanged.
C19_NormalizeDefault ==
    ddl_op = "_normalize_default" =>
        normalized_default = ExpectedDefault(nd_base_type, column_default)

\* ------------------------------------------- migrate_schema claims

\* table number k has been handled to its end
Handled(k) == k < ms_tbl
\* the CREATE INDEX statements issued for index x of table number k
IssuedFor(k, x) ==
    {n \in 1..Len(ms_issued) :
        /\ ms_issued[n].table_name = Tables[k]
        /\ ms_issued[n].index_name = x.index_name}
\* index x names a column that the table's CREATE TABLE leaves out
NamesIgnored(k, x) ==
    LET ignored == IgnoredOf(k)
        names == {ignored[j] : j \in 1..Len(ignored)}
    IN  \E c \in 1..Len(x.columns) : x.columns[c] \in names
\* at most one statement for x, naming all its columns in order
OneWhole(k, x) ==
    /\ Cardinality(IssuedFor(k, x)) <= 1
    /\ \A n \in IssuedFor(k, x) : ms_issued[n].columns = x.columns

\* C18: for every non-primary index of a handled table either one CREATE
\* INDEX naming all of the index's columns in order is issued or none is;
\* none is issued exactly when the index references an ignored column.
C18_IndexIssuedUnlessIgnored ==
    \A k \in 1..NumTables : Handled(k) =>
        \A i \in 1..Len(ms_source[k].indexes) :
            LET x == ms_source[k].indexes[i]
            IN  /\ OneWhole(k, x)
                /\ IssuedFor(k, x) = {} <=> NamesIgnored(k, x)

\* C18 as amended: at most one CREATE INDEX is issued per index and it names
\* all of the index's columns in order; none is issued exactly when the
\* index references an ignored column, CREATE TABLE did not succeed, or an
\* exception ended the table's handling before the index was reached.
C18_IndexAllOrNothing ==
    \A k \in 1..NumTables : Handled(k) =>
        \A i \in 1..Len(ms_source[k].indexes) :
            LET x == ms_source[k].indexes[i]
            IN  /\ OneWhole(k, x)
                /\ IssuedFor(k, x) = {}
                    <=> \/ NamesIgnored(k, x)
                        \/ ~ms_log[k].created
                        \/ ~ms_log[k].fetched
                        \/ i > ms_log[k].reached

C18_Witness ==
    /\ ms_pc = "done"
    /\ ms_log[1].ignored_columns = <<"tags">>
    /\ Len(ms_source[1].indexes) = 2
    /\ ms_source[1].indexes[1].index_name = "ix_name_tags"
    /\ ms_source[1].indexes[2].index_name = "ux_name_id"
    /\ ms_log[1].reached = 2
    /\ Len(ms_issued) = 1
    /\ ms_issued[1].columns = <<"name", "id">>
    /\ ~ms_log[2].created

\* ----------------------------------------------------- main claims

\* C12: for a table of a run the same set of ignored columns is used in all
\* phases: the columns left out of the generated CREATE TABLE are exactly
\* the columns excluded from the source reads of the data pipeline and from
\* the source read and the target read of the checksum validation.
C12_SameIgnoredColumns ==
    \A left \in mn_left_out.ddl :
        /\ \A data \in mn_left_out.data : data = left
        /\ \A pg \in mn_left_out.validation_source : pg = left
        /\ \A ob \in mn_left_out.validation_target : ob = left

C12_Witness ==
    /\ mn_pc = "done"
    /\ mn_left_out.ddl = {{"tags"}}
    /\ mn_left_out.data = {{"tags"}}
    /\ mn_left_out.validation_source = {{"tags"}}
    /\ mn_left_out.validation_target = {{"tags"}}



\* ===================================================================
\* retry and RetryManager.execute (src/src/utils/retry.py).  The decorator's
\* wrapper (lines 11-32) and execute (lines 45-67) run the same loop; rt_via
\* tells which of the two is in use.
\* ===================================================================

MaxAttempts == 3    \* largest max_retries given to retry
MaxDelay == 2       \* largest delay and largest backoff given to retry

\* retry.py lines 12-14 and 47-49: the wrapper is entered
InitRetry ==
    /\ DataIdle
    /\ ConvIdle
    /\ DdlIdle
    /\ MsIdle
    /\ MainIdle
    /\ ValidatorIdle
    /\ CheckpointIdle
    /\ rt_via \in {"decorator", "execute"}
    /\ rt_max_retries \in 0..MaxAttempts
    /\ rt_delay \in 1..MaxDelay
    /\ rt_backoff \in 1..MaxDelay
    /\ rt_pc = "loop"
    /\ rt_retries = 0
    /\ rt_current_delay = rt_delay
    /\ rt_last_exception = None
    /\ rt_history = <<>>
    /\ rt_slept = <<>>
    /\ rt_result = NoOutcome

\* retry.py lines 16-18 and 51-53: the loop test holds, func returns
FuncReturns ==
    /\ rt_pc = "loop"
    /\ rt_retries < rt_max_retries
    /\ rt_history' = Append(rt_history, "ok")
    /\ rt_result' = [kind |-> "value", call |-> Len(rt_history) + 1]
    /\ rt_pc' = "returned"
    /\ UNCHANGED <<dataVars, convVars, ddlVars, msVars, mainVars, vl_pc,
                   vl_pg_data, vl_ob_data, vl_result, ck_files, ck_op, ck_ret,
                   ck_saved, rt_via,
                   rt_max_retries, rt_delay, rt_backoff, rt_retries,
                   rt_current_delay, rt_last_exception, rt_slept>>

\* the handler that sleeps after every failed call, the last one included
FuncRaises_SleepsAlways ==
    /\ rt_pc = "loop"
    /\ rt_retries < rt_max_retries
    /\ rt_history' = Append(rt_history, "error")
    /\ rt_last_exception' = {Len(rt_history) + 1}
    /\ rt_retries' = rt_retries + 1
    /\ rt_slept' = Append(rt_slept, rt_current_delay)
    /\ rt_current_delay' = rt_current_delay * rt_backoff
    /\ UNCHANGED <<dataVars, convVars, ddlVars, msVars, mainVars, vl_pc,
                   vl_pg_data, vl_ob_data, vl_result, ck_files, ck_op, ck_ret,
                   ck_saved, rt_via,
                   rt_max_retries, rt_delay, rt_backoff, rt_pc, rt_result>>

\* retry.py lines 16-30 and 51-65: the loop test holds, func raises
FuncRaises ==
    /\ rt_pc = "loop"
    /\ rt_retries < rt_max_retries
    /\ rt_history' = Append(rt_history, "error")
    /\ rt_last_exception' = {Len(rt_history) + 1}
    /\ rt_retries' = rt_retries + 1
    /\ IF rt_retries + 1 < rt_max_retries
          THEN /\ rt_slept' = Append(rt_slept, rt_current_delay)
               /\ rt_current_delay' = rt_current_delay * rt_backoff
          ELSE UNCHANGED <<rt_slept, rt_current_delay>>
    /\ UNCHANGED <<dataVars, convVars, ddlVars, msVars, mainVars, vl_pc,
                   vl_pg_data, vl_ob_data, vl_result, ck_files, ck_op, ck_ret,
                   ck_saved, rt_via,
                   rt_max_retries, rt_delay, rt_backoff, rt_pc, rt_result>>

\* retry.py lines 16, 32 and 51, 67: the loop test fails, last_exception is
\* raised; raising None is a TypeError
RaiseLastException ==
    /\ rt_pc = "loop"
    /\ ~(rt_retries < rt_max_retries)
    /\ rt_result' = IF IsNone(rt_last_exception)
                       THEN [kind |-> "type_error"]
                       ELSE [kind |-> "exception",
                             call |-> ValueOf(rt_last_exception)]
    /\ rt_pc' = "raised"
    /\ UNCHANGED <<dataVars, convVars, ddlVars, msVars, mainVars, vl_pc,
                   vl_pg_data, vl_ob_data, vl_result, ck_files, ck_op, ck_ret,
                   ck_saved, rt_via,
                   rt_max_retries, rt_delay, rt_backoff, rt_retries,
                   rt_current_delay, rt_last_exception, rt_history, rt_slept>>

NextRetry ==
    \/ FuncReturns
    \/ FuncRaises
    \/ RaiseLastException

SpecRetry == InitRetry /\ [][NextRetry]_vars



\* ===================================================================
\* DataValidator.validate_checksum (src/src/migration/validator.py).
\* A sampled row is a dict with an integer 'id' and a 'flag' that the driver
\* delivers as a Python bool or as a Python int: psycopg2 returns True/False
\* for a boolean column, pymysql returns 1/0 for the TINYINT(1) it becomes.
\* ===================================================================

MaxSample == 2      \* largest number of rows in a sample

\* the rows a sample may hold
Rows ==
    [id : {[type |-> "int", v |-> n] : n \in 1..2},
     flag : {[type |-> t, v |-> n] : t \in {"bool", "int"}, n \in 0..1}]

\* the samples get_table_data may return
Samples == UNION {[1..n -> Rows] : n \in 0..MaxSample}

\* validator.py line 80: str(x) of a row dict, with the str of a Python
\* bool or int for its values
StrRow(row) ==
    LET StrValue(value) ==
            IF value.type = "bool"
                THEN IF value.v = 1 THEN <<"T", "r", "u", "e">>
                                    ELSE <<"F", "a", "l", "s", "e">>
                ELSE <<CHOOSE d \in Digits : ToString(value.v) = d>>
    IN  <<"{", "'", "i", "d", "'", ":", " ">> \o StrValue(row.id) \o
        <<",", " ", "'", "f", "l", "a", "g", "'", ":", " ">> \o
        StrValue(row.flag) \o <<"}">>

\* str.__lt__: comparison of two strings by code points; the characters of
\* the row strings are listed in the order of their code points
RECURSIVE StrLess(_, _)
StrLess(a, b) ==
    LET CodePointOrder ==
            <<" ", "'", ",", "0", "1", "2", ":", "F", "T", "a", "d", "e",
              "f", "g", "i", "l", "r", "s", "u", "{", "}">>
        CodePoint(c) == CHOOSE n \in 1..Len(CodePointOrder) :
                            CodePointOrder[n] = c
    IN  IF b = <<>> THEN FALSE
        ELSE IF a = <<>> THEN TRUE
        ELSE IF Head(a) # Head(b) THEN CodePoint(Head(a)) < CodePoint(Head(b))
        ELSE StrLess(Tail(a), Tail(b))

\* validator.py line 80: sorted(data, key=lambda x: str(x)), a stable sort
SortedData(data) ==
    LET Before(i, j) == \/ StrLess(StrRow(data[i]), StrRow(data[j]))
                        \/ StrRow(data[i]) = StrRow(data[j]) /\ i < j
        Place(i) == Cardinality({j \in 1..Len(data) : Before(j, i)}) + 1
    IN  [p \in 1..Len(data) |->
            data[CHOOSE i \in 1..Len(data) : Place(i) = p]]

\* validator.py lines 77-86: the digest of str(sorted_data); the MD5 digest
\* is modelled as the string it is computed from (no two strings collide)
calculate_checksum(data) ==
    LET sorted_data == SortedData(data)
    IN  [i \in 1..Len(sorted_data) |-> StrRow(sorted_data[i])]

\* validator.py lines 42-59: validate_checksum is called, the two samples
\* are read
InitValidator ==
    /\ DataIdle
    /\ ConvIdle
    /\ DdlIdle
    /\ MsIdle
    /\ MainIdle
    /\ RetryIdle
    /\ CheckpointIdle
    /\ vl_pc = "sampled"
    /\ vl_pg_data \in Samples
    /\ vl_ob_data \in Samples
    /\ vl_result = NoOutcome

\* validator.py lines 53-75: the checksums are computed and compared
ValidateChecksum ==
    /\ vl_pc = "sampled"
    /\ LET pg_checksum == calculate_checksum(vl_pg_data)
           ob_checksum == calculate_checksum(vl_ob_data)
       IN  vl_result' = [pg_checksum |-> pg_checksum,
                         ob_checksum |-> ob_checksum,
                         matched |-> pg_checksum = ob_checksum]
    /\ vl_pc' = "done"
    /\ UNCHANGED <<dataVars, convVars, ddlVars, msVars, mainVars, rt_via,
                   rt_max_retries, rt_delay, rt_backoff, rt_pc, rt_retries,
                   rt_current_delay, rt_last_exception, rt_history, rt_slept,
                   rt_result, vl_pg_data, vl_ob_data, ck_files, ck_op, ck_ret,
                   ck_saved>>

NextValidator == ValidateChecksum

SpecValidator == InitValidator /\ [][NextValidator]_vars



\* ===================================================================
\* CheckpointManager (src/src/migration/checkpoint.py): one JSON file per
\* table in the checkpoint directory.  Opening, writing and removing a file
\* may fail; the methods catch that and report it by their return value.
\* A file holds the dict json.load reads from it, or none if it is rejected.
\* ===================================================================

MaxSyncCount == 1   \* largest last_sync_count saved
MaxClock == 2       \* number of instants told apart in last_sync_time, updated_at

\* checkpoint.py lines 57-63: the dict save_checkpoint writes for table k
CheckpointData(k) ==
    [table_name : {Tables[k]},
     last_sync_time : 1..MaxClock,
     last_sync_count : 0..MaxSyncCount,
     status : {"success", "failed"},
     updated_at : 1..MaxClock]

\* checkpoint.py line 17: the manager is constructed, the directory is empty
InitCheckpoint ==
    /\ DataIdle
    /\ ConvIdle
    /\ DdlIdle
    /\ MsIdle
    /\ MainIdle
    /\ RetryIdle
    /\ ValidatorIdle
    /\ CheckpointIdle

\* the variables a call on the CheckpointManager leaves alone
notCheckpoint ==
    <<dataVars, convVars, ddlVars, msVars, mainVars, rt_via, rt_max_retries,
      rt_delay, rt_backoff, rt_pc, rt_retries, rt_current_delay,
      rt_last_exception, rt_history, rt_slept, rt_result, vl_pc, vl_pg_data,
      vl_ob_data, vl_result>>

\* checkpoint.py lines 20-39: get_checkpoint(Tables[k])
GetCheckpoint ==
    \E k \in 1..NumTables :
        /\ ck_op' = [kind |-> "get", table |-> k]
        /\ ck_ret' = [kind |-> "checkpoint",
                      value |-> IF ck_files[k].exists THEN ck_files[k].json
                                                      ELSE None]
        /\ UNCHANGED <<notCheckpoint, ck_files, ck_saved>>

\* checkpoint.py lines 41-73: save_checkpoint(Tables[k], ...).  open(.., 'w')
\* may fail and leave the file as it is; it truncates the file when it
\* succeeds, so a json.dump that fails leaves a file that json.load rejects.
SaveCheckpoint ==
    \E k \in 1..NumTables :
    \E data \in CheckpointData(k),
       outcome \in {"written", "open_fails", "dump_fails"} :
        /\ ck_op' = [kind |-> "save", table |-> k]
        /\ ck_files' = [ck_files EXCEPT ![k] =
                CASE outcome = "written" -> [exists |-> TRUE, json |-> {data}]
                  [] outcome = "open_fails" -> @
                  [] outcome = "dump_fails" -> [exists |-> TRUE, json |-> {}]]
        /\ ck_ret' = [kind |-> "bool", value |-> outcome = "written"]
        /\ ck_saved' = IF outcome = "written"
                          THEN [ck_saved EXCEPT ![k] = {data}]
                          ELSE ck_saved
        /\ UNCHANGED notCheckpoint

\* checkpoint.py lines 75-93: reset_checkpoint(Tables[k]); os.remove may fail
ResetCheckpoint ==
    \E k \in 1..NumTables, removed \in BOOLEAN :
        /\ ~ck_files[k].exists => removed
        /\ ck_op' = [kind |-> "reset", table |-> k]
        /\ ck_files' = IF removed
                           THEN [ck_files EXCEPT ![k] =
                                    [exists |-> FALSE, json |-> {}]]
                           ELSE ck_files
        /\ ck_ret' = [kind |-> "bool", value |-> removed]
        /\ ck_saved' = IF removed THEN [ck_saved EXCEPT ![k] = {}]
                                  ELSE ck_saved
        /\ UNCHANGED notCheckpoint

NextCheckpoint ==
    \/ GetCheckpoint
    \/ SaveCheckpoint
    \/ ResetCheckpoint

SpecCheckpoint == InitCheckpoint /\ [][NextCheckpoint]_vars


\* ===================================================================
\* Claims about the chunk loop and insert_batch (specification Spec)
\* ===================================================================

RECURSIVE SumUpTo(_, _)
SumUpTo(tgt, n) == IF n = 0 THEN 0 ELSE tgt[n] + SumUpTo(tgt, n - 1)

\* the number of rows committed to the target table of the current table
Committed(tgt) == SumUpTo(tgt, MaxRows)

\* a step of insert_batch that returns (it does not raise)
WriteReturns == pc = "write" /\ writes' = writes + 1 /\ exceptions' = exceptions

\* a step of get_table_data that returns (it does not raise)
ReadReturns == pc = "loop" /\ reads' = reads + 1 /\ exceptions' = exceptions

\* C25: while the source does not change no source row is committed to the
\* target more than once, and between two chunks the migrated counter equals
\* the number of rows committed so far.
C25_CommittedOnce ==
    ~source_changed =>
        /\ \A r \in 1..MaxRows : target[r] <= 1
        /\ pc \in {"loop", "return"} => migrated = Committed(target)

\* C26: the value insert_batch returns, which the chunk loop adds to migrated,
\* is the number of rows the call committed; it is 0 only when the call
\* committed nothing.
C26_ReturnsCommitted ==
    [][ WriteReturns =>
            migrated' - migrated = Committed(target') - Committed(target) ]_vars

\* C27: a chunk write that inserts N > 0 rows adds exactly N to migrated and
\* sets the retry counter to 0; the retry counter is 0 whenever the offset
\* moves, never exceeds max_retries, and a write that inserts nothing ends
\* the loop exactly when max_retries retries were used at this offset.
C27_RetryBudgetPerOffset ==
    [][ /\ retry_count <= max_retries
        /\ (WriteReturns /\ migrated' # migrated) =>
              /\ migrated' = migrated + data_len
              /\ retry_count' = 0
              /\ pc' = "loop"
        /\ (WriteReturns /\ migrated' = migrated) =>
              /\ pc' = "return" <=> retry_count = max_retries
              /\ pc' = "loop" <=> retry_count' = retry_count + 1
      ]_vars

C27_Witness ==
    /\ pc = "loop"
    /\ max_retries >= 1
    /\ writes >= 2
    /\ failed > 0
    /\ migrated > 0
    /\ retry_count = 0
    /\ exceptions = 0

\* C28: every source read is issued at the offset migrated and returns at
\* most chunk_size rows; migrated never decreases while a table is migrated;
\* while the source does not change migrated never exceeds the total.
C28_ReadAtMigrated ==
    [][ /\ reads' = reads + 1 => read_offset' = migrated
        /\ ReadReturns => data_len' <= chunk_size
        /\ pc # "dispatch" => migrated' >= migrated
        /\ ~source_changed' => migrated' <= total_count'
      ]_vars

C28_Witness ==
    /\ pc = "return"
    /\ ~source_changed
    /\ reads >= 2
    /\ read_offset > 0
    /\ read_offset + data_len = total_count
    /\ migrated = total_count

\* C29: a source read that returns no rows while migrated < total ends the
\* loop at once: nothing is written, the counters keep their values, and the
\* result reports the migrated and failed counts reached so far.
C29_EmptyReadStops ==
    [][ /\ (ReadReturns /\ data_len' = 0) =>
              /\ pc' = "return"
              /\ writes' = writes
              /\ target' = target
              /\ migrated' = migrated
              /\ failed' = failed
              /\ retry_count' = retry_count
        /\ (pc = "return" /\ data_len = 0 /\ migrated < total_count
                /\ exc_offset = -1) =>
              /\ Returned'
              /\ result'.migrated = migrated
              /\ result'.failed = failed
              /\ writes' = writes
      ]_vars

C29_Witness ==
    /\ Returned
    /\ result.status # "skipped"
    /\ data_len = 0
    /\ exc_offset = -1
    /\ reads >= 2
    /\ result.migrated < total_count
    /\ result.migrated = migrated


\* ===================================================================
\* Claims about the result lists of migrate_schema (specification SpecMs)
\* ===================================================================

\* how often table number k is listed in one of the result lists
TimesListed(list, k) ==
    Cardinality({n \in 1..Len(list) : list[n] = Tables[k]})

\* C30: every table that migrate_schema has handled is listed exactly once
\* in results['success'] and results['failed'] taken together, also when
\* reading or creating one of its indexes raises.
C30_ExactlyOneList ==
    \A k \in 1..NumTables :
        Handled(k) =>
            TimesListed(ms_results.success, k)
                + TimesListed(ms_results.failed, k) = 1


\* ===================================================================
\* Claim about the termination of the chunk loop (specification SpecLive)
\* ===================================================================

\* C24: whatever the source and the target do, the chunk loop of
\* migrate_table_data is left after finitely many passes.
C24_Terminates == <>(pc = "return")


\* ===================================================================
\* Claim about retry and RetryManager.execute (specification SpecRetry)
\* ===================================================================

\* the calls of func made so far
Calls == Len(rt_history)

\* C22: with max_retries >= 1, func is called until its first success and at
\* most max_retries times; the result of the first successful call is
\* returned with no call after it; when every call raises, the exception of
\* the last call is raised after exactly max_retries calls; the wrapper
\* sleeps once between two consecutive calls and not after the last one.
C22_RetryUntilSuccess ==
    rt_max_retries >= 1 =>
        /\ Calls <= rt_max_retries
        /\ \A k \in 1..(Calls - 1) : rt_history[k] = "error"
        /\ rt_pc = "loop" =>
              /\ \A k \in 1..Calls : rt_history[k] = "error"
              /\ Len(rt_slept) =
                    IF Calls = rt_max_retries THEN Calls - 1 ELSE Calls
        /\ rt_pc = "returned" =>
              /\ rt_history[Calls] = "ok"
              /\ rt_result = [kind |-> "value", call |-> Calls]
        /\ rt_pc = "raised" =>
              /\ Calls = rt_max_retries
              /\ rt_history[Calls] = "error"
              /\ rt_result = [kind |-> "exception", call |-> Calls]
        /\ rt_pc \in {"returned", "raised"} => Len(rt_slept) = Calls - 1

C22_Witness ==
    /\ rt_pc = "returned"
    /\ Calls = 3
    /\ Len(rt_slept) = 2


\* ===================================================================
\* Claim about validate_checksum (specification SpecValidator)
\* ===================================================================

\* Python's == on two row dicts: True == 1 and False == 0
RowsEqual(r1, r2) == r1.id.v = r2.id.v /\ r1.flag.v = r2.flag.v

\* how often a row equal to row occurs in a sample
TimesSampled(data, row) ==
    Cardinality({n \in 1..Len(data) : RowsEqual(data[n], row)})

\* the two samples hold the same rows the same number of times
SameMultiset(a, b) == \A row \in Rows : TimesSampled(a, row) = TimesSampled(b, row)

\* C21: validate_checksum reports matched exactly when the two samples hold
\* the same multiset of rows, in whatever order the rows come.
C21_MatchedIffSameMultiset ==
    vl_pc = "done" =>
        (vl_result.matched <=> SameMultiset(vl_pg_data, vl_ob_data))


\* ===================================================================
\* Claim about the CheckpointManager (specification SpecCheckpoint)
\* ===================================================================

\* C23: get_checkpoint(t) returns exactly the values of the latest save of
\* t that no reset of t followed, and None when t was never saved or was
\* reset since (a save or reset counts when it reported success).
C23_GetReturnsLatestSave ==
    ck_op.kind = "get" => ck_ret.value = ck_saved[ck_op.table]
====
